---- MODULE Spec2Model ----
(***************************************************************************)
(* untrusted.String (src/untrusted/string.py): a wrapper that marks a str  *)
(* as untrusted.  The model is the caller's view of one String instance:   *)
(* the instance (self), the operation the caller last invoked on it, the   *)
(* arguments it passed, what came back, and the calls the operation made   *)
(* to a caller-supplied function.                                          *)
(*                                                                         *)
(* Python values are records [t |-> <type name>, v |-> <payload>]:         *)
(*   str       v = sequence of one-character strings                       *)
(*   String    v = the object stored in _value (itself a value record)     *)
(*   int, bool v = the number / boolean                                    *)
(*   tuple, list   v = sequence of values                                  *)
(*   dict      v = sequence of <<key, value>> pairs in insertion order     *)
(*   function  v = the function's name                                     *)
(*   iterator  v = the items it still yields                               *)
(*   raise     v = the exception type: the call raised instead of          *)
(*                 returning                                               *)
(***************************************************************************)
EXTENDS Integers, Sequences, FiniteSets, TLC

VARIABLES self, made, pc, op, args, result, calls

vars == <<self, made, pc, op, args, result, calls>>

(***************************************************************************)
(* Bounds of the model.                                                    *)
(***************************************************************************)
\* longest raw string a receiver is constructed from (beside the Templates)
MaxLen == 2
\* longest tuple passed to %
MaxTuple == 2

Alphabet == {"k", "s", "%", "{", "}"}

Words(n) == UNION {[1..m -> Alphabet] : m \in 0..n}

\* templates longer than MaxLen that exercise %-directives, mapping keys
\* and replacement fields
Templates ==
    { <<"%", "s", "%", "s">>,
      <<"k", "%", "s", "k">>,
      <<"%", "(", "k", ")", "s">>,
      <<"%", "(", "k", ")", "s", "%", "s">>,
      <<"%", "(", "s", ")", "%">>,
      <<"%", "(", "k">>,
      <<"{", "k", "}">>,
      <<"{", "k", "}", "{", "s", "}">>,
      <<"{", "{", "k", "}", "}">>,
      <<"{", "k", "{", "}", "}">> }

Raw == Words(MaxLen) \cup Templates

(***************************************************************************)
(* Python values.                                                          *)
(***************************************************************************)
StrV(s)    == [t |-> "str", v |-> s]
IntV(n)    == [t |-> "int", v |-> n]
BoolV(b)   == [t |-> "bool", v |-> b]
TupleV(xs) == [t |-> "tuple", v |-> xs]
ListV(xs)  == [t |-> "list", v |-> xs]
DictV(kvs) == [t |-> "dict", v |-> kvs]
FnV(name)  == [t |-> "function", v |-> name]
Raise(e)   == [t |-> "raise", v |-> e]
None       == [t |-> "NoneType", v |-> 0]
NotImplemented == [t |-> "NotImplementedType", v |-> 0]

type(x) == x.t
isinstance(x, cls) == x.t = cls
IsRaise(x) == x.t = "raise"

\* code point of a character
Ord(c) ==
    CASE c = " " -> 32 [] c = "%" -> 37 [] c = "'" -> 39 [] c = "(" -> 40
      [] c = ")" -> 41 [] c = "," -> 44 [] c = ":" -> 58 [] c = "k" -> 107
      [] c = "s" -> 115 [] c = "{" -> 123 [] c = "}" -> 125 [] OTHER -> 63

RECURSIVE SeqLess(_, _)
\* lexicographic order of two character sequences by code point
SeqLess(a, b) ==
    IF b = <<>> THEN FALSE
    ELSE IF a = <<>> THEN TRUE
    ELSE IF Ord(Head(a)) # Ord(Head(b)) THEN Ord(Head(a)) < Ord(Head(b))
    ELSE SeqLess(Tail(a), Tail(b))

RECURSIVE PolyHash(_, _)
PolyHash(s, h) ==
    IF s = <<>> THEN h ELSE PolyHash(Tail(s), (h * 31 + Ord(Head(s))) % 65536)

\* hash(s) of a str: a function of the characters alone
str_hash(s) == IntV(PolyHash(s, 7))

RECURSIVE Digits(_)
Digits(n) ==
    IF n < 10
    THEN <<CASE n = 0 -> "0" [] n = 1 -> "1" [] n = 2 -> "2" [] n = 3 -> "3"
             [] n = 4 -> "4" [] n = 5 -> "5" [] n = 6 -> "6" [] n = 7 -> "7"
             [] n = 8 -> "8" [] OTHER -> "9">>
    ELSE Digits(n \div 10) \o Digits(n % 10)

(***************************************************************************)
(* The instance's own accessors and conversions.                           *)
(***************************************************************************)
\* the read-only property `value`: the object stored in _value
value(x) == x.v

\* the property _valueType
_valueType(x) == type(x)

\* a __str__ that hands out the raw value
str_leaking(x) == value(x)

\* __str__ always raises TypeError(_cast_error)
__str__(x) == Raise("TypeError")

ReprPrefix ==
    <<"<", "u", "n", "t", "r", "u", "s", "t", "e", "d", ".", "s", "t", "r",
      "i", "n", "g", " ", "o", "f", " ", "l", "e", "n", "g", "t", "h", " ">>

\* "<untrusted.string of length %d>" % len(self.value)
__repr__(x) == StrV(ReprPrefix \o Digits(Len(value(x).v)) \o <<">">>)

\* __bool__: not not self.value
__bool__(x) == BoolV(value(x).v # <<>>)

(***************************************************************************)
(* Python's built-in conversions of a value to text, as str % and          *)
(* str.format_map apply them.  No character of the model needs escaping    *)
(* in a repr.                                                              *)
(***************************************************************************)
RECURSIVE PyObject_Repr(_)
RECURSIVE ReprItems(_, _)
RECURSIVE ReprPairs(_, _)

ReprItems(xs, i) ==
    IF i > Len(xs) THEN <<>>
    ELSE (IF i > 1 THEN <<",", " ">> ELSE <<>>)
         \o PyObject_Repr(xs[i]).v \o ReprItems(xs, i + 1)

ReprPairs(kvs, i) ==
    IF i > Len(kvs) THEN <<>>
    ELSE (IF i > 1 THEN <<",", " ">> ELSE <<>>)
         \o PyObject_Repr(kvs[i][1]).v \o <<":", " ">>
         \o PyObject_Repr(kvs[i][2]).v \o ReprPairs(kvs, i + 1)

PyObject_Repr(x) ==
    CASE x.t = "str" -> StrV(<<"'">> \o x.v \o <<"'">>)
      [] x.t = "String" -> __repr__(x)
      [] x.t = "int" -> StrV(Digits(x.v))
      [] x.t = "bool" -> StrV(IF x.v THEN <<"T", "r", "u", "e">>
                                      ELSE <<"F", "a", "l", "s", "e">>)
      [] x.t = "tuple" ->
            StrV(<<"(">> \o ReprItems(x.v, 1)
                 \o (IF Len(x.v) = 1 THEN <<",">> ELSE <<>>) \o <<")">>)
      [] x.t = "list" -> StrV(<<"[">> \o ReprItems(x.v, 1) \o <<"]">>)
      [] x.t = "dict" -> StrV(<<"{">> \o ReprPairs(x.v, 1) \o <<"}">>)
      [] OTHER -> StrV(<<"N", "o", "n", "e">>)

\* str(x): a str is itself, a String goes through its __str__
PyObject_Str(x) ==
    CASE x.t = "str" -> x
      [] x.t = "String" -> __str__(x)
      [] OTHER -> PyObject_Repr(x)

\* format(x, ""): object.__format__ is str(self)
PyObject_Format(x) == PyObject_Str(x)

\* the dict's value stored under key, or KeyError
DictLookup(kvs, key) ==
    IF \E i \in 1..Len(kvs) : kvs[i][1] = key
    THEN kvs[CHOOSE i \in 1..Len(kvs) : kvs[i][1] = key][2]
    ELSE Raise("KeyError")

RECURSIVE MatchClose(_, _, _, _, _)
\* index of the closer that matches an opener already read, 0 if none
MatchClose(fmt, j, depth, opener, closer) ==
    IF j > Len(fmt) THEN 0
    ELSE IF fmt[j] = closer
         THEN (IF depth = 1 THEN j
               ELSE MatchClose(fmt, j + 1, depth - 1, opener, closer))
    ELSE IF fmt[j] = opener
         THEN MatchClose(fmt, j + 1, depth + 1, opener, closer)
    ELSE MatchClose(fmt, j + 1, depth, opener, closer)

\* obj[key] for a str key, as the formatting code performs it: a dict is
\* searched; String.__getitem__ and list.__getitem__ hand the key to an
\* operation that accepts only integers
PyObject_GetItem(obj, key) ==
    IF obj.t = "dict" THEN DictLookup(obj.v, key) ELSE Raise("TypeError")

(***************************************************************************)
(* str % args (the built-in the __mod__ of line 118 calls).  The model     *)
(* has the directives its characters can spell: %s, %% and %(key)s; any    *)
(* other conversion character is an unsupported format character.          *)
(***************************************************************************)
RECURSIVE unicode_format(_, _, _, _, _, _, _)
RECURSIVE unicode_format_arg(_, _, _, _, _, _, _)

\* the conversion character at j, after % and an optional (key)
unicode_format_arg(fmt, j, dict, cargs, arglen, argidx, out) ==
    IF j > Len(fmt) THEN Raise("ValueError")
    ELSE IF ~ (argidx < arglen) THEN Raise("TypeError")
    ELSE LET arg == IF arglen < 0 THEN cargs ELSE cargs.v[argidx + 1]
             txt == PyObject_Str(arg)
         IN  IF fmt[j] # "s" THEN Raise("ValueError")
             ELSE IF IsRaise(txt) THEN txt
             ELSE unicode_format(fmt, j + 1, dict, cargs, arglen, argidx + 1,
                                 out \o txt.v)

unicode_format(fmt, i, dict, cargs, arglen, argidx, out) ==
    IF i > Len(fmt)
    THEN (IF argidx < arglen /\ dict = None THEN Raise("TypeError")
          ELSE StrV(out))
    ELSE IF fmt[i] # "%"
         THEN unicode_format(fmt, i + 1, dict, cargs, arglen, argidx,
                             Append(out, fmt[i]))
    ELSE IF i + 1 > Len(fmt) THEN Raise("ValueError")
    ELSE IF fmt[i + 1] = "%"
         THEN unicode_format(fmt, i + 2, dict, cargs, arglen, argidx,
                             Append(out, "%"))
    ELSE IF fmt[i + 1] = "("
         THEN (IF dict = None THEN Raise("TypeError")
               ELSE LET close == MatchClose(fmt, i + 2, 1, "(", ")")
                        item == PyObject_GetItem(
                                    dict, StrV(SubSeq(fmt, i + 2, close - 1)))
                    IN  IF close = 0 THEN Raise("ValueError")
                        ELSE IF IsRaise(item) THEN item
                        ELSE unicode_format_arg(fmt, close + 1, dict, item,
                                                -1, -2, out))
    ELSE unicode_format_arg(fmt, i + 1, dict, cargs, arglen, argidx, out)

\* s % a for a str s: a tuple is the argument list; a mapping other than a
\* tuple or str (anything with __getitem__) serves %(key) lookups
str_mod(s, a) ==
    unicode_format(s.v, 1,
                   IF a.t \in {"dict", "list", "String"} THEN a ELSE None,
                   a,
                   IF a.t = "tuple" THEN Len(a.v) ELSE -1,
                   IF a.t = "tuple" THEN 0 ELSE -2,
                   <<>>)

(***************************************************************************)
(* str.format_map(mapping) (the built-in line 122 calls): literal text,    *)
(* the escapes {{ and }}, and replacement fields {name}.                   *)
(***************************************************************************)
RECURSIVE FieldEnd(_, _)
\* index of the } ending the field name that starts at j; 0 if a { or the
\* end of the string comes first
FieldEnd(fmt, j) ==
    IF j > Len(fmt) THEN 0
    ELSE IF fmt[j] = "}" THEN j
    ELSE IF fmt[j] = "{" THEN 0
    ELSE FieldEnd(fmt, j + 1)

RECURSIVE do_string_format_map(_, _, _, _)
do_string_format_map(fmt, i, mapping, out) ==
    IF i > Len(fmt) THEN StrV(out)
    ELSE IF fmt[i] \notin {"{", "}"}
         THEN do_string_format_map(fmt, i + 1, mapping, Append(out, fmt[i]))
    ELSE IF i = Len(fmt) THEN Raise("ValueError")
    ELSE IF fmt[i + 1] = fmt[i]
         THEN do_string_format_map(fmt, i + 2, mapping, Append(out, fmt[i]))
    ELSE IF fmt[i] = "}" THEN Raise("ValueError")
    ELSE LET close == FieldEnd(fmt, i + 1)
             obj == PyObject_GetItem(mapping, StrV(SubSeq(fmt, i + 1, close - 1)))
             txt == PyObject_Format(obj)
         IN  IF close = 0 \/ close = i + 1 THEN Raise("ValueError")
             ELSE IF IsRaise(obj) THEN obj
             ELSE IF IsRaise(txt) THEN txt
             ELSE do_string_format_map(fmt, close + 1, mapping, out \o txt.v)

str_format_map(s, mapping) == do_string_format_map(s.v, 1, mapping, <<>>)

(***************************************************************************)
(* The str operations reached through the dispatch tables, for the names   *)
(* in StrModelled.  a is the sequence of positional arguments.             *)
(***************************************************************************)
\* hasattr(obj, '__iter__')
HasIter(obj) == obj.t \in {"tuple", "list", "str", "dict"}

\* the items iterating obj yields
Iter(obj) ==
    CASE obj.t \in {"tuple", "list"} -> obj.v
      [] obj.t = "str" -> [i \in 1..Len(obj.v) |-> StrV(<<obj.v[i]>>)]
      [] OTHER -> [i \in 1..Len(obj.v) |-> obj.v[i][1]]

RECURSIVE Repeat(_, _)
Repeat(s, n) == IF n <= 0 THEN <<>> ELSE s \o Repeat(s, n - 1)

IsPrefix(p, s) == Len(p) <= Len(s) /\ SubSeq(s, 1, Len(p)) = p

\* first index at which sub occurs in s, 0 if none
Find(s, sub) ==
    IF \E i \in 1..(Len(s) - Len(sub) + 1) : IsPrefix(sub, SubSeq(s, i, Len(s)))
    THEN CHOOSE i \in 1..(Len(s) - Len(sub) + 1) :
             /\ IsPrefix(sub, SubSeq(s, i, Len(s)))
             /\ \A j \in 1..(i - 1) : ~ IsPrefix(sub, SubSeq(s, j, Len(s)))
    ELSE 0

RECURSIVE Join(_, _, _)
Join(sep, xs, i) ==
    IF i > Len(xs) THEN <<>>
    ELSE (IF i > 1 THEN sep ELSE <<>>) \o xs[i].v \o Join(sep, xs, i + 1)

\* the names of the tables that a str object really has among those modelled
StrModelled ==
    {"__eq__", "__ne__", "__lt__", "__gt__", "__len__", "__hash__",
     "__contains__", "startswith", "__add__", "__mul__", "__rmul__",
     "__getitem__", "join", "partition"}

\* names that are no attribute of str: getattr(str, name) raises
StrMissing == {"__gte__", "__lte__", "some_undeclared_method"}

str_call(name, s, a) ==
    CASE name \in StrMissing -> Raise("AttributeError")
      [] name \in {"__len__", "__hash__", "encode"} /\ Len(a) # 0 -> Raise("TypeError")
      [] name = "__len__" -> IntV(Len(s.v))
      [] name = "__hash__" -> str_hash(s.v)
      [] name = "encode" -> [t |-> "bytes", v |-> s.v]
      [] Len(a) # 1 -> Raise("TypeError")
      [] name \in {"__eq__", "__ne__", "__lt__", "__gt__", "__le__", "__ge__"} ->
            IF a[1].t # "str" THEN NotImplemented
            ELSE BoolV(CASE name = "__eq__" -> s.v = a[1].v
                         [] name = "__ne__" -> s.v # a[1].v
                         [] name = "__lt__" -> SeqLess(s.v, a[1].v)
                         [] name = "__gt__" -> SeqLess(a[1].v, s.v)
                         [] name = "__le__" -> ~ SeqLess(a[1].v, s.v)
                         [] OTHER -> ~ SeqLess(s.v, a[1].v))
      [] name \in {"__mul__", "__rmul__"} ->
            IF a[1].t # "int" THEN Raise("TypeError")
            ELSE StrV(Repeat(s.v, a[1].v))
      [] name = "__getitem__" ->
            IF a[1].t # "int" THEN Raise("TypeError")
            ELSE IF a[1].v >= Len(s.v) \/ a[1].v < 0 - Len(s.v)
                 THEN Raise("IndexError")
            ELSE StrV(<<s.v[IF a[1].v >= 0 THEN a[1].v + 1
                            ELSE Len(s.v) + a[1].v + 1]>>)
      [] name = "join" ->
            IF ~ HasIter(a[1]) THEN Raise("TypeError")
            ELSE IF \E i \in 1..Len(a[1].v) : Iter(a[1])[i].t # "str"
                 THEN Raise("TypeError")
            ELSE StrV(Join(s.v, Iter(a[1]), 1))
      [] name = "translate" ->
            \* no table of the model maps a code point of the model
            IF HasIter(a[1]) THEN s ELSE Raise("TypeError")
      [] a[1].t # "str" -> Raise("TypeError")
      [] name = "__contains__" -> BoolV(Find(s.v, a[1].v) # 0)
      [] name = "startswith" -> BoolV(IsPrefix(a[1].v, s.v))
      [] name = "__add__" -> StrV(s.v \o a[1].v)
      [] name = "partition" ->
            IF a[1].v = <<>> THEN Raise("ValueError")
            ELSE LET i == Find(s.v, a[1].v)
                 IN  IF i = 0 THEN TupleV(<<s, StrV(<<>>), StrV(<<>>)>>)
                     ELSE TupleV(<<StrV(SubSeq(s.v, 1, i - 1)), a[1],
                                   StrV(SubSeq(s.v, i + Len(a[1].v), Len(s.v)))>>)
      [] OTHER -> Raise("AttributeError")

(***************************************************************************)
(* Construction and argument normalisation.                                *)
(***************************************************************************)
\* an initialiser that converts whatever it is given with str()
init_coercing(val) ==
    LET unwrapped == IF isinstance(val, "String") THEN value(val) ELSE val
    IN  [t |-> "String", v |-> PyObject_Str(unwrapped)]

\* String.__init__: the new instance, or the TypeError it raises
__init__(val) ==
    LET unwrapped == IF isinstance(val, "String") THEN value(val) ELSE val
    IN  IF ~ isinstance(unwrapped, "str") THEN Raise("TypeError")
        ELSE [t |-> "String", v |-> unwrapped]

\* cls(x): a call of the type object cls with one argument
CallType(cls, x) ==
    CASE IsRaise(x) -> x
      [] cls = "String" -> __init__(x)
      [] cls = "str" -> PyObject_Str(x)
      [] cls \in {"tuple", "list"} /\ x.t \in {"tuple", "list"} -> [t |-> cls, v |-> x.v]
      [] cls = "dict" /\ x.t = "dict" -> x
      [] cls = "int" /\ x.t = "int" -> x
      [] OTHER -> Raise("TypeError")

RECURSIVE _wrap_arg(_)
\* untrusted.util._wrap_arg: a String is unwrapped to its raw value, the
\* elements of an argument list and the values of a mapping likewise;
\* anything else passes through unchanged
_wrap_arg(a) ==
    CASE a.t = "String" -> value(a)
      [] a.t \in {"tuple", "list"} ->
            [t |-> a.t, v |-> [i \in 1..Len(a.v) |-> _wrap_arg(a.v[i])]]
      [] a.t = "dict" ->
            DictV([i \in 1..Len(a.v) |-> <<a.v[i][1], _wrap_arg(a.v[i][2])>>])
      [] OTHER -> a

(***************************************************************************)
(* The classification tables and the dispatch through them.                *)
(***************************************************************************)
_safe_methods ==
    {"__eq__", "__gt__", "__gte__", "__len__", "__lt__", "__lte__", "__ne__",
     "__contains__", "__hash__", "count", "endswith", "find", "index",
     "isalnum", "isalpha", "isdecimal", "isdigit", "isidentifier", "islower",
     "isnumeric", "isprintable", "isspace", "istitle", "isupper", "rfind",
     "rindex", "startswith"}

_simple_wrapped_methods ==
    {"__add__", "__mul__", "__rmul__", "__getitem__", "capitalize",
     "casefold", "center", "expandtabs", "format", "join", "ljust", "lower",
     "lstrip", "replace", "rstrip", "strip", "swapcase", "title", "upper",
     "zfill"}

\* the keys of _complex_wrapped_methods
_complex_wrapped_methods ==
    {"__reversed__", "partition", "rpartition", "split", "rsplit",
     "splitlines"}

\* the converter stored under a key of _complex_wrapped_methods
ConverterOf(name) ==
    CASE name = "__reversed__" -> "iterator"
      [] name \in {"partition", "rpartition"} -> "tuple"
      [] OTHER -> "list"

\* untrusted.util._to_untrusted_iterator / _to_untrusted_tuple_of_strings /
\* _to_untrusted_list: the same composite with every element wrapped
_to_untrusted(kind, cls, raw) ==
    [t |-> kind, v |-> [i \in 1..Len(raw.v) |-> CallType(cls, raw.v[i])]]

\* what untrusted.util._wrapped_method(self, name) returns: the bound
\* wrapper for a name of the tables, and no wrapper for any other name
_wrapped_method(x, name) ==
    IF name \in _safe_methods \cup _simple_wrapped_methods
                \cup _complex_wrapped_methods
    THEN [t |-> "wrapper", v |-> name]
    ELSE Raise("UnsupportedOperationError")

\* calling the wrapper: arguments normalised, the str operation invoked, the
\* result passed through, wrapped or converted by the name's table
CallWrapper(x, name, a) ==
    LET raw == str_call(name, value(x), _wrap_arg(TupleV(a)).v)
    IN  IF IsRaise(raw) \/ name \in _safe_methods THEN raw
        ELSE IF name \in _simple_wrapped_methods THEN CallType(type(x), raw)
        ELSE _to_untrusted(ConverterOf(name), type(x), raw)

\* a str method delegating to the raw value with no table in between
getattr_delegating(x, name) == [t |-> "strmethod", v |-> name]

\* String.__getattr__, reached for a name normal lookup does not find
__getattr__(x, name) == _wrapped_method(x, name)

\* the names handed to _createMagicPassthroughBindings
MagicNames ==
    {"add", "contains", "hash", "eq", "gt", "gte", "getitem", "len", "lt",
     "lte", "mul", "ne", "rmul"}

\* the attributes lines 173-174 set on the class: __<name>__ for each name
_magicMethods == {"__" \o n \o "__" : n \in MagicNames}

\* attributes every class inherits from object, among the names modelled
ObjectAttrs == {"__ge__", "__le__", "__format__"}

\* object's own implementation of an inherited attribute, on a String
object_default(x, name, a) ==
    CASE name \in {"__ge__", "__le__"} /\ Len(a) = 1 -> NotImplemented
      [] name = "__format__" /\ Len(a) = 1 /\ a[1] = StrV(<<>>) -> PyObject_Str(x)
      [] OTHER -> Raise("TypeError")

\* a binding made by _createMagicPassthroughBindings: the call is handed
\* to the wrapper _wrapped_method gives for the bound name
MagicPassthrough(x, name, a) ==
    LET m == _wrapped_method(x, name)
    IN  IF IsRaise(m) THEN m ELSE CallWrapper(x, name, a)

\* x.name(*a) on a String x: a class attribute set by the magic bindings,
\* else an attribute inherited from object, else __getattr__
Invoke(x, name, a) ==
    IF name \in _magicMethods THEN MagicPassthrough(x, name, a)
    ELSE IF name \in ObjectAttrs THEN object_default(x, name, a)
    ELSE LET m == __getattr__(x, name)
         IN  IF IsRaise(m) THEN m
             ELSE IF m.t = "strmethod" THEN str_call(name, value(x), a)
             ELSE CallWrapper(x, name, a)

(***************************************************************************)
(* The methods the class defines itself.                                   *)
(***************************************************************************)
\* a + b for operands that are not String instances
PyAdd(a, b) ==
    CASE a.t = "str" /\ b.t = "str" -> StrV(a.v \o b.v)
      [] a.t = "int" /\ b.t = "int" -> IntV(a.v + b.v)
      [] a.t = b.t /\ a.t \in {"tuple", "list"} -> [t |-> a.t, v |-> a.v \o b.v]
      [] OTHER -> Raise("TypeError")

__add__(x, other) ==
    CallType(_valueType(x), PyAdd(value(x), _wrap_arg(other)))

\* a reflected + that forgets to wrap its result
radd_unwrapped(x, other) == PyAdd(_wrap_arg(other), value(x))

__radd__(x, other) ==
    CallType(_valueType(x), PyAdd(_wrap_arg(other), value(x)))

\* untrusted.iterator(reversed(self.value)): yields the characters, last
\* first, each as a String
__reversed__(x) ==
    [t |-> "iterator",
     v |-> [i \in 1..Len(value(x).v) |->
               CallType("String", StrV(<<value(x).v[Len(value(x).v) + 1 - i]>>))]]

__mod__(x, arg) ==
    LET arg_type == type(arg)
        unwrapped == _wrap_arg(arg)
        operand == CallType(arg_type, unwrapped)
    IN  IF IsRaise(operand) THEN operand
        ELSE CallType(_valueType(x), str_mod(value(x), operand))

\* a format_map that hands the mapping on without normalising it
format_map_nowrap(x, mapping) ==
    CallType(_valueType(x), str_format_map(value(x), mapping))

format_map(x, mapping) ==
    CallType(_valueType(x), str_format_map(value(x), _wrap_arg(mapping)))

\* x + other: the class attribute __add__ is the magic binding, which
\* lines 173-174 set over the method of line 97
BinaryAdd(x, other) ==
    IF "__add__" \in _magicMethods THEN MagicPassthrough(x, "__add__", <<other>>)
    ELSE __add__(x, other)

(***************************************************************************)
(* Comparison operators and hash() as Python resolves them on the type.    *)
(***************************************************************************)
CompareOps == {"==", "!=", "<", "<=", ">", ">="}

\* the special method Python looks up for a comparison operator
CmpDunder(o) ==
    CASE o = "==" -> "__eq__" [] o = "!=" -> "__ne__" [] o = "<" -> "__lt__"
      [] o = "<=" -> "__le__" [] o = ">" -> "__gt__" [] OTHER -> "__ge__"

\* the operator tried on the right operand when the left one declines
Swapped(o) ==
    CASE o = "<" -> ">" [] o = ">" -> "<" [] o = "<=" -> ">="
      [] o = ">=" -> "<=" [] OTHER -> o

\* type(a).<dunder>(a, b)
TypeSlot(a, dunder, b) ==
    IF a.t = "str" THEN str_call(dunder, a, <<b>>)
    ELSE IF dunder \in _magicMethods THEN MagicPassthrough(a, dunder, <<b>>)
    ELSE NotImplemented

\* a o b for two distinct objects: the left operand's method, then the
\* right operand's swapped method, then the default (identity for == and
\* !=, TypeError for an ordering)
RichCompare(a, o, b) ==
    LET first == TypeSlot(a, CmpDunder(o), b)
        second == TypeSlot(b, CmpDunder(Swapped(o)), a)
    IN  IF first # NotImplemented THEN first
        ELSE IF second # NotImplemented THEN second
        ELSE IF o = "==" THEN BoolV(FALSE)
        ELSE IF o = "!=" THEN BoolV(TRUE)
        ELSE Raise("TypeError")

\* hash(x): the type's __hash__; object's default hash is derived from the
\* object's address, which no str hash equals by design of the model
PyHash(x) ==
    IF x.t = "str" THEN str_call("__hash__", x, <<>>)
    ELSE IF "__hash__" \in _magicMethods THEN MagicPassthrough(x, "__hash__", <<>>)
    ELSE IntV(-1)

(***************************************************************************)
(* Caller-supplied functions and the gateway.  A gateway operation yields  *)
(* what it returns (ret) and the calls it made to the function (calls).    *)
(***************************************************************************)
Out(ret, log) == [ret |-> ret, calls |-> log]

NoKw == DictV(<<>>)

KeyK == StrV(<<"k">>)
KeyS == StrV(<<"s">>)

HasKey(kw, key) == \E i \in 1..Len(kw.v) : kw.v[i][1] = key

\* the functions a caller hands to the gateway:
\*   identity(v)          returns v
\*   surround(v, k, s="") returns k + v + s
\*   length(v)            returns len(v), an int
\*   is_empty(v)          returns v == "", a bool
\*   nothing(v)           returns None
Sanitizers == {"identity", "surround", "length", "is_empty", "nothing"}

\* fn(*pos, **kw) for one of the Sanitizers: Python binds the arguments to
\* the parameters (TypeError if they do not fit) and runs the body
Apply(fn, pos, kw) ==
    IF fn = "surround"
    THEN LET kGiven == (IF Len(pos) >= 2 THEN 1 ELSE 0)
                       + (IF HasKey(kw, KeyK) THEN 1 ELSE 0)
             sGiven == (IF Len(pos) >= 3 THEN 1 ELSE 0)
                       + (IF HasKey(kw, KeyS) THEN 1 ELSE 0)
             k == IF Len(pos) >= 2 THEN pos[2] ELSE DictLookup(kw.v, KeyK)
             post == IF Len(pos) >= 3 THEN pos[3]
                     ELSE IF HasKey(kw, KeyS) THEN DictLookup(kw.v, KeyS)
                     ELSE StrV(<<>>)
         IN  IF Len(pos) > 3 \/ kGiven # 1 \/ sGiven > 1
                \/ \E i \in 1..Len(kw.v) : kw.v[i][1] \notin {KeyK, KeyS}
             THEN Raise("TypeError")
             ELSE PyAdd(PyAdd(k, pos[1]), post)
    ELSE IF Len(pos) # 1 \/ kw.v # <<>> THEN Raise("TypeError")
    ELSE CASE fn = "identity" -> pos[1]
           [] fn = "length" -> IntV(Len(pos[1].v))
           [] fn = "is_empty" -> BoolV(pos[1].v = <<>>)
           [] OTHER -> None

\* fn(*pos, **kw) for any object fn: only a function can be called
Call(fn, pos, kw) ==
    IF fn.t # "function" THEN Out(Raise("TypeError"), <<>>)
    ELSE Out(Apply(fn.v, pos, kw), <<[fn |-> fn.v, pos |-> pos, kw |-> kw]>>)

\* escape that hands back whatever fn returned
escape_unchecked(x, fn, a, kw) == Call(fn, <<value(x)>> \o a, kw)

escape(x, fn, a, kw) ==
    LET c == Call(fn, <<value(x)>> \o a, kw)
    IN  IF IsRaise(c.ret) THEN c
        ELSE IF ~ isinstance(c.ret, "str") THEN Out(Raise("AssertionError"), c.calls)
        ELSE c

valid(x, fn, a, kw) ==
    LET c == Call(fn, <<value(x)>> \o a, kw)
    IN  IF IsRaise(c.ret) THEN c
        ELSE IF ~ isinstance(c.ret, "bool") THEN Out(Raise("AssertionError"), c.calls)
        ELSE c

validate(x, fn, a, kw) == Call(fn, <<value(x)>> \o a, kw)

\* self.escape(fn, *star, **dstar)
escape_star(x, fn, star, dstar) ==
    IF ~ HasIter(star) \/ dstar.t # "dict" THEN Out(Raise("TypeError"), <<>>)
    ELSE escape(x, fn, Iter(star), dstar)

\* a / that drops the keyword arguments of a 3-element grouping
truediv_drop_kwargs(x, arg) ==
    IF HasIter(arg)
    THEN (IF Len(arg.v) = 2
          THEN escape_star(x, Iter(arg)[1], Iter(arg)[2], NoKw)
          ELSE IF Len(arg.v) # 3 THEN Out(Raise("ValueError"), <<>>)
          ELSE escape_star(x, Iter(arg)[1], Iter(arg)[2], NoKw))
    ELSE escape(x, arg, <<>>, NoKw)

__truediv__(x, arg) ==
    IF HasIter(arg)
    THEN (IF Len(arg.v) = 2
          THEN escape_star(x, Iter(arg)[1], Iter(arg)[2], NoKw)
          ELSE IF Len(arg.v) # 3 THEN Out(Raise("ValueError"), <<>>)
          ELSE escape_star(x, Iter(arg)[1], Iter(arg)[2], Iter(arg)[3]))
    ELSE escape(x, arg, <<>>, NoKw)

(***************************************************************************)
(* The caller's inputs.                                                    *)
(***************************************************************************)
\* String(w) for a raw character sequence w
Tainted(w) == __init__(StrV(w))

\* raw strings passed as arguments
ArgWords == Words(1) \cup {<<"%", "s">>}

StrArgs == {StrV(w) : w \in ArgWords}
StringArgs == {Tainted(w) : w \in ArgWords}
OtherArgs == {IntV(1), None}

\* elements of tuples and values of mappings, raw and wrapped
Elems == {<<"k">>, <<"%", "s">>}
ElemVals == {StrV(e) : e \in Elems} \cup {Tainted(e) : e \in Elems}

Tuples == {TupleV(xs) : xs \in UNION {[1..n -> ElemVals] : n \in 0..MaxTuple}}

Dicts ==
    {NoKw} \cup {DictV(<<<<KeyK, x>>>>) : x \in ElemVals}
           \cup {DictV(<<<<KeyK, x>>, <<KeyS, y>>>>) : x \in ElemVals, y \in ElemVals}

ModArgs == StrArgs \cup StringArgs \cup OtherArgs \cup Tuples \cup Dicts

ConstructArgs ==
    StrArgs \cup StringArgs \cup OtherArgs
    \cup {self, BoolV(TRUE), TupleV(<<>>), ListV(<<StrV(<<"k">>)>>),
          [t |-> "bytes", v |-> <<"k">>]}

Callables == {FnV(f) : f \in Sanitizers} \cup {IntV(1)}

ExtraArgs == {<<>>, <<StrV(<<"k">>)>>, <<StrV(<<"k">>), StrV(<<"s">>)>>, <<IntV(1)>>}

KwArgs == {NoKw, DictV(<<<<KeyS, StrV(<<"s">>)>>>>), DictV(<<<<KeyK, StrV(<<"%">>)>>>>)}

\* right operands of /: a bare object, groupings of 1 to 4 elements as
\* tuple or list, and a str
Groupings ==
    Callables
    \cup {TupleV(<<f>>) : f \in Callables}
    \cup {TupleV(<<f, TupleV(a)>>) : f \in Callables, a \in ExtraArgs}
    \cup {ListV(<<f, ListV(a)>>) : f \in Callables, a \in ExtraArgs}
    \cup {TupleV(<<f, IntV(1)>>) : f \in Callables}
    \cup {TupleV(<<f, TupleV(a), kw>>) : f \in Callables, a \in ExtraArgs, kw \in KwArgs}
    \cup {TupleV(<<f, TupleV(<<>>), NoKw, NoKw>>) : f \in Callables}
    \cup {StrV(<<"k", "s">>)}

\* names a caller may invoke as self.<name>(...)
Unlisted == {"encode", "translate", "some_undeclared_method"}
MethodNames == StrModelled \cup {"__gte__", "__lte__"} \cup Unlisted \cup ObjectAttrs

MethodArgs ==
    {<<>>, <<StrV(<<>>)>>, <<StrV(<<"k">>)>>, <<Tainted(<<"k">>)>>, <<IntV(1)>>,
     <<IntV(2)>>, <<NoKw>>,
     <<ListV(<<Tainted(<<"k">>), StrV(<<"s">>)>>)>>,
     <<StrV(<<"k">>), StrV(<<"s">>)>>}

(***************************************************************************)
(* The state machine: the caller invokes one operation on self, looks at   *)
(* what came back, and goes on with self or with a String it was handed.   *)
(***************************************************************************)
Init ==
    /\ \E w \in Raw : self = Tainted(w) /\ made = StrV(w)
    /\ pc = "idle"
    /\ op = "String"
    /\ args = <<>>
    /\ result = None
    /\ calls = <<>>

\* an operation that rebinds the receiver to the String it produced
ReturnsInPlace(o, a, r, log) ==
    /\ pc = "idle"
    /\ pc' = "returned"
    /\ op' = o
    /\ args' = a
    /\ result' = r
    /\ calls' = log
    /\ self' = IF r.t = "String" THEN r ELSE self
    /\ UNCHANGED made

\* an operation o invoked with arguments a returns (or raises) r, having
\* made the calls in log; no method but __init__ assigns _value
Returns(o, a, r, log) ==
    /\ pc = "idle"
    /\ pc' = "returned"
    /\ op' = o
    /\ args' = a
    /\ result' = r
    /\ calls' = log
    /\ UNCHANGED <<self, made>>

Construct == \E x \in ConstructArgs : Returns("String", <<x>>, __init__(x), <<>>)

Add == \E other \in StrArgs \cup StringArgs \cup OtherArgs :
           Returns("+", <<other>>, BinaryAdd(self, other), <<>>)

Radd == \E other \in StrArgs \cup StringArgs \cup OtherArgs :
            Returns("r+", <<other>>, __radd__(self, other), <<>>)

Mod == \E arg \in ModArgs : Returns("%", <<arg>>, __mod__(self, arg), <<>>)

FormatMap == \E m \in Dicts \cup OtherArgs :
                 Returns("format_map", <<m>>, format_map(self, m), <<>>)

BoolOf == Returns("bool", <<>>, __bool__(self), <<>>)

Reversed == Returns("reversed", <<>>, __reversed__(self), <<>>)

StrOf == Returns("str", <<>>, __str__(self), <<>>)

ReprOf == Returns("repr", <<>>, __repr__(self), <<>>)

ReadValue == Returns("value", <<>>, value(self), <<>>)

Compare == \E o \in CompareOps, w \in ArgWords \cup {made.v} :
               Returns(o, <<Tainted(w)>>, RichCompare(self, o, Tainted(w)), <<>>)

HashOf == Returns("hash", <<>>, PyHash(self), <<>>)

Escape == \E fn \in Callables, a \in ExtraArgs, kw \in KwArgs :
              LET out == escape(self, fn, a, kw)
              IN  Returns("escape", <<fn, TupleV(a), kw>>, out.ret, out.calls)

Valid == \E fn \in Callables, a \in ExtraArgs :
             LET out == valid(self, fn, a, NoKw)
             IN  Returns("valid", <<fn, TupleV(a), NoKw>>, out.ret, out.calls)

Validate == \E fn \in Callables, a \in ExtraArgs :
                LET out == validate(self, fn, a, NoKw)
                IN  Returns("validate", <<fn, TupleV(a), NoKw>>, out.ret, out.calls)

Truediv == \E g \in Groupings :
               LET out == __truediv__(self, g)
               IN  Returns("/", <<g>>, out.ret, out.calls)

CallMethod == \E name \in MethodNames, a \in MethodArgs :
                  Returns(name, a, Invoke(self, name, a), <<>>)

\* the caller drops the result and goes on with the same receiver
Return ==
    /\ pc = "returned"
    /\ pc' = "idle"
    /\ op' = ""
    /\ args' = <<>>
    /\ result' = None
    /\ calls' = <<>>
    /\ UNCHANGED <<self, made>>

\* the caller goes on with the String it was handed as the receiver
Chain ==
    /\ pc = "returned"
    /\ result.t = "String"
    /\ result.v.t = "str"
    /\ Len(result.v.v) <= MaxLen
    /\ self' = result
    /\ made' = result.v
    /\ pc' = "idle"
    /\ op' = ""
    /\ args' = <<>>
    /\ result' = None
    /\ calls' = <<>>

Next ==
    \/ Construct \/ Add \/ Radd \/ Mod \/ FormatMap
    \/ BoolOf \/ Reversed \/ StrOf \/ ReprOf \/ ReadValue
    \/ Compare \/ HashOf
    \/ Escape \/ Valid \/ Validate \/ Truediv
    \/ CallMethod
    \/ Return \/ Chain

Spec == Init /\ [][Next]_vars

(***************************************************************************)
(* Properties.                                                             *)
(***************************************************************************)
String(w) == [t |-> "String", v |-> StrV(w)]

\* the text repr gives for a String of n characters
LengthOnly(n) == StrV(ReprPrefix \o Digits(n) \o <<">">>)

\* the operations that produce strings without being a gateway
StringProducing == {"+", "r+", "%", "format_map"} \cup _simple_wrapped_methods

\* C1: after any sequence of operations, a string-producing operation that
\* is no gateway returns a String holding a plain str (or raises), never a
\* plain str; and a plain str that carries more than the length of the
\* wrapped content comes only from value, escape, validate or /.
C1_TaintClosure ==
    pc = "returned" =>
        /\ op \in StringProducing =>
               \/ IsRaise(result)
               \/ result.t = type(self) /\ result.v.t = "str"
        /\ result.t = "str" /\ op \notin {"value", "escape", "validate", "/"} =>
               op = "repr" /\ result = LengthOnly(Len(made.v))

\* a String came back from + on a receiver that was itself handed back by
\* an earlier operation ("1" is no initial receiver)
C1_Witness ==
    /\ pc = "returned" /\ op = "+" /\ made = StrV(<<"1">>)
    /\ args = <<String(<<"k">>)>> /\ result = String(<<"1", "k">>)

\* C2: each of ==, !=, <, <=, >, >= on String(s) and String(t) returns what
\* the same comparison returns on s and t, and hash(String(s)) = hash(s).
C2_DelegatesToRaw ==
    pc = "returned" =>
        /\ op \in CompareOps =>
               result = RichCompare(value(self), op, value(args[1]))
        /\ op = "hash" => result = PyHash(value(self))

\* C3: whenever s % a is defined for a string, a tuple of strings or a
\* mapping with string values a, String(s) % A, with A the same argument
\* with its strings wrapped, is the String of s % a.
C3_ModTransparent ==
    pc = "returned" /\ op = "%"
    /\ args[1] \in StrArgs \cup StringArgs \cup Tuples \cup Dicts
    /\ ~ IsRaise(str_mod(value(self), _wrap_arg(args[1])))
    => result = [t |-> "String", v |-> str_mod(value(self), _wrap_arg(args[1]))]

\* C4: String(s) + a and String(s) + String(a) are the String of s + a;
\* a + String(s) is the String of a + s; String(s).format_map(m), with the
\* values of m wrapped or raw, is the String of s.format_map(raw m) (and
\* raises what that raises).
C4_ConcatFormatTransparent ==
    pc = "returned" =>
        /\ op = "+" /\ args[1].t \in {"str", "String"} =>
               result = String(made.v \o _wrap_arg(args[1]).v)
        /\ op = "r+" /\ args[1].t = "str" =>
               result = String(args[1].v \o made.v)
        /\ op = "format_map" /\ args[1].t = "dict" =>
               LET raw == str_format_map(made, _wrap_arg(args[1]))
               IN  result = IF IsRaise(raw) THEN raw
                            ELSE [t |-> "String", v |-> raw]

\* format_map substituted a wrapped value of the mapping
C4_Witness ==
    /\ pc = "returned" /\ op = "format_map"
    /\ made = StrV(<<"{", "k", "}">>)
    /\ args = <<DictV(<<<<KeyK, String(<<"%", "s">>)>>>>)>>
    /\ result = String(<<"%", "s">>)

\* C5: the receiver always stores a plain str; String(x) of a str x stores
\* x, String(x) of a String x is equal to x and stores a plain str, and
\* String(x) of anything else raises TypeError.
C5_Construction ==
    /\ self.t = "String" /\ self.v.t = "str"
    /\ pc = "returned" /\ op = "String" =>
           /\ args[1].t = "str" => result = [t |-> "String", v |-> args[1]]
           /\ args[1].t = "String" => result = args[1] /\ result.v.t = "str"
           /\ args[1].t \notin {"str", "String"} => result = Raise("TypeError")

\* String(self) was constructed from a receiver that was itself the result
\* of String(String(...))
C5_Witness ==
    /\ pc = "returned" /\ op = "String" /\ args = <<self>>
    /\ result = String(<<"%", "s">>) /\ made = StrV(<<"%", "s">>)

\* C6: str(String(s)) raises TypeError for every s, the empty string
\* included, and so does formatting it with an empty format spec.
C6_NoImplicitCast ==
    pc = "returned" =>
        /\ op = "str" => result = Raise("TypeError")
        /\ op = "__format__" /\ args = <<StrV(<<>>)>> => result = Raise("TypeError")

C6_Witness == pc = "returned" /\ op = "str" /\ made = StrV(<<>>) /\ IsRaise(result)

\* C7: escape(fn, *a, **kw) calls fn once, with the raw value first and the
\* extra arguments after it; it returns the str fn returned, and fails its
\* assertion when fn returned anything that is no str.
C7_Escape ==
    pc = "returned" /\ op = "escape" /\ args[1].t = "function" =>
        LET pos == <<value(self)>> \o args[2].v
            r == Apply(args[1].v, pos, args[3])
        IN  /\ calls = <<[fn |-> args[1].v, pos |-> pos, kw |-> args[3]]>>
            /\ r.t = "str" => result = r
            /\ ~ IsRaise(r) /\ r.t # "str" => result = Raise("AssertionError")

\* fn returned an int: the assertion failed after one call
C7_Witness ==
    /\ pc = "returned" /\ op = "escape" /\ args[1] = FnV("length")
    /\ Len(calls) = 1 /\ result = Raise("AssertionError")

\* C8: self / fn is self.escape(fn); self / (fn, a) is self.escape(fn, *a);
\* self / (fn, a, kw) is self.escape(fn, *a, **kw): the same result, after
\* the same calls.
C8_ShorthandIsEscape ==
    pc = "returned" /\ op = "/" =>
        LET g == args[1]
        IN  /\ g.t = "function" =>
                Out(result, calls) = escape(self, g, <<>>, NoKw)
            /\ g.t \in {"tuple", "list"} /\ Len(g.v) = 2
               /\ g.v[2].t \in {"tuple", "list"} =>
                Out(result, calls) = escape(self, g.v[1], g.v[2].v, NoKw)
            /\ g.t \in {"tuple", "list"} /\ Len(g.v) = 3
               /\ g.v[2].t \in {"tuple", "list"} /\ g.v[3].t = "dict" =>
                Out(result, calls) = escape(self, g.v[1], g.v[2].v, g.v[3])

\* a 3-element grouping whose keyword argument reached the function
C8_Witness ==
    /\ pc = "returned" /\ op = "/" /\ made = StrV(<<"k">>)
    /\ args = <<TupleV(<<FnV("surround"), TupleV(<<StrV(<<"k">>)>>),
                         DictV(<<<<KeyS, StrV(<<"s">>)>>>>)>>)>>
    /\ result = StrV(<<"k", "k", "s">>)

\* the names normal attribute lookup resolves on a String: the methods the
\* class defines, the magic bindings, and what object provides
DefinedOnType ==
    {"__getattr__", "__init__", "__add__", "__radd__", "__bool__",
     "__reversed__", "__mod__", "format_map", "__str__", "__repr__", "value",
     "_valueType", "__truediv__", "escape", "valid", "validate"}
    \cup _magicMethods \cup ObjectAttrs

\* C9: invoking a name that lookup does not resolve on the type and that is
\* in none of the three tables raises UnsupportedOperationError.
C9_FailClosed ==
    pc = "returned" /\ op \in MethodNames /\ op \notin DefinedOnType
    /\ op \notin _safe_methods \cup _simple_wrapped_methods
                 \cup _complex_wrapped_methods
    => result = Raise("UnsupportedOperationError")

C9_Witness ==
    /\ pc = "returned" /\ op = "encode" /\ args = <<>>
    /\ result = Raise("UnsupportedOperationError")

====
